---------------------------- MODULE Spec2Model ----------------------------
(***************************************************************************)
(* Model of health_bot.py (class HealthBot): a menu loop over two files,   *)
(* health_log.csv (rewritten in full through pandas on every append) and   *)
(* symptoms_db.json (written once by initialize_files, then only read).    *)
(*                                                                         *)
(* Text typed by the user is a sequence of one-character strings, so that  *)
(* int(), the menu's string comparison and the type inference of           *)
(* pd.read_csv can be computed character by character.                     *)
(***************************************************************************)
EXTENDS Integers, Sequences, FiniteSets, TLC

VARIABLES
    logFile,      \* health_log.csv: [exists, header, rows], rows of text cells
    dbFile,       \* symptoms_db.json: [exists, table], table in key order
    symptoms_db,  \* self.symptoms_db, the table loaded by the constructor
    pc,           \* where the process is blocked (which input() it waits on)
    symptom,      \* log_symptoms' local `symptom` while it asks the severity
    out,          \* the last message printed
    exitCode,     \* exit status of the process once it has ended, else -1
    run,          \* number of the process (how many times it was launched)
    clock         \* datetime.now(), in seconds after ClockBase

vars == <<logFile, dbFile, symptoms_db, pc, symptom, out, exitCode, run, clock>>

----------------------------------------------------------------------------
(* Bounds of the model *)

MaxLog == 2       \* rows the log may hold
MaxClock == 1     \* seconds the clock may advance
MaxRuns == 2      \* launches of the program

----------------------------------------------------------------------------
(* Characters and Python's int() *)

Digits == {"0", "1", "2", "3", "4", "5", "6", "7", "8", "9"}

DigitVal(c) ==
    CASE c = "0" -> 0 [] c = "1" -> 1 [] c = "2" -> 2 [] c = "3" -> 3
      [] c = "4" -> 4 [] c = "5" -> 5 [] c = "6" -> 6 [] c = "7" -> 7
      [] c = "8" -> 8 [] c = "9" -> 9

AllDigits(s) == \A i \in 1..Len(s) : s[i] \in Digits

RECURSIVE LStrip(_)
LStrip(s) == IF s # <<>> /\ Head(s) = " " THEN LStrip(Tail(s)) ELSE s

RECURSIVE RStrip(_)
RStrip(s) ==
    IF s # <<>> /\ s[Len(s)] = " " THEN RStrip(SubSeq(s, 1, Len(s) - 1)) ELSE s

Strip(s) == RStrip(LStrip(s))

HasSign(s) == s # <<>> /\ Head(s) \in {"+", "-"}

Unsigned(s) == IF HasSign(s) THEN Tail(s) ELSE s

RECURSIVE DigitsValue(_)
DigitsValue(s) ==
    IF s = <<>> THEN 0
    ELSE 10 * DigitsValue(SubSeq(s, 1, Len(s) - 1)) + DigitVal(s[Len(s)])

\* int(text): surrounding whitespace ignored, an optional sign, then at
\* least one digit and nothing else; anything else raises ValueError.
PyIntOk(s) ==
    LET body == Unsigned(Strip(s))
    IN  body # <<>> /\ AllDigits(body)

PyIntValue(s) ==
    LET t == Strip(s)
        v == DigitsValue(Unsigned(t))
    IN  IF HasSign(t) /\ Head(t) = "-" THEN 0 - v ELSE v

\* list(...)[i] in Python: 0-based, and a negative i counts from the end.
PyIndexOk(list, i) == i < Len(list) /\ i >= 0 - Len(list)

\* Variant of PyIndex: the index is taken one place too far.
PyIndexShifted(list, i) == list[((i + 1) % Len(list)) + 1]

PyIndex(list, i) == IF i >= 0 THEN list[i + 1] ELSE list[Len(list) + i + 1]


----------------------------------------------------------------------------
(* pandas: pd.read_csv's type inference on the severity column, and what  *)
(* DataFrame.to_csv writes back.  The other three columns hold text that   *)
(* is no number and no NA marker, so they are read and written unchanged.  *)

DotAt(s) == IF \E i \in 1..Len(s) : s[i] = "."
            THEN CHOOSE i \in 1..Len(s) : s[i] = "." /\ \A j \in 1..(i - 1) : s[j] # "."
            ELSE 0

\* How the parser classifies one cell: empty is NA, an optionally signed
\* run of digits is an integer, digits with one decimal point a float,
\* everything else stays text.
CellKind(text) ==
    LET t == Strip(text)
        body == Unsigned(t)
        d == DotAt(body)
        ip == IF d = 0 THEN body ELSE SubSeq(body, 1, d - 1)
        fp == IF d = 0 THEN <<>> ELSE SubSeq(body, d + 1, Len(body))
    IN  IF text = <<>> THEN "nan"
        ELSE IF body # <<>> /\ AllDigits(body) THEN "int"
        ELSE IF d > 0 /\ AllDigits(ip) /\ AllDigits(fp) /\ Len(ip) + Len(fp) >= 1
             THEN "float"
        ELSE "str"

RECURSIVE StripLeadingZeros(_)
StripLeadingZeros(s) ==
    IF Len(s) > 1 /\ Head(s) = "0" THEN StripLeadingZeros(Tail(s)) ELSE s

RECURSIVE StripTrailingZeros(_)
StripTrailingZeros(s) ==
    IF Len(s) > 1 /\ s[Len(s)] = "0"
    THEN StripTrailingZeros(SubSeq(s, 1, Len(s) - 1)) ELSE s

IsNegative(text) == HasSign(Strip(text)) /\ Head(Strip(text)) = "-"

\* str(numpy.int64(...)): no plus sign, no leading zeros, no minus zero.
IntRepr(text) ==
    LET mag == StripLeadingZeros(Unsigned(Strip(text)))
    IN  IF IsNegative(text) /\ mag # <<"0">> THEN <<"-">> \o mag ELSE mag

\* repr of a float64 read from a cell holding an integer or a decimal.
FloatRepr(text) ==
    LET body == Unsigned(Strip(text))
        d == DotAt(body)
        ip == IF d = 0 THEN body ELSE SubSeq(body, 1, d - 1)
        fp == IF d = 0 THEN <<>> ELSE SubSeq(body, d + 1, Len(body))
        ipn == IF ip = <<>> THEN <<"0">> ELSE StripLeadingZeros(ip)
        fpn == IF fp = <<>> THEN <<"0">> ELSE StripTrailingZeros(fp)
    IN  (IF IsNegative(text) THEN <<"-">> ELSE <<>>) \o ipn \o <<".">> \o fpn

\* dtype of a column of cells: int64 when every cell is an integer, float64
\* when every cell is a number or NA, object otherwise and for no rows.
ColumnDtype(cells) ==
    LET kinds == {CellKind(cells[i]) : i \in 1..Len(cells)}
    IN  IF cells = <<>> THEN "object"
        ELSE IF kinds = {"int"} THEN "int64"
        ELSE IF kinds \subseteq {"int", "float", "nan"} THEN "float64"
        ELSE "object"

\* The value a cell becomes in a column of the given dtype; v is the text
\* to_csv writes for it.
ReadCell(dtype, text) ==
    IF text = <<>> THEN [t |-> "nan", v |-> <<>>]
    ELSE IF dtype = "int64" THEN [t |-> "int", v |-> IntRepr(text)]
    ELSE IF dtype = "float64" THEN [t |-> "float", v |-> FloatRepr(text)]
    ELSE [t |-> "str", v |-> text]

LogColumns == <<"date", "symptoms", "severity", "remedies_suggested">>

\* pd.read_csv(health_log_file): the rows with the severity column typed.
read_csv(file) ==
    LET dtype == ColumnDtype([i \in 1..Len(file.rows) |-> file.rows[i].severity])
    IN  [columns |-> file.header,
         dtype |-> dtype,
         rows |-> [i \in 1..Len(file.rows) |->
                     [file.rows[i] EXCEPT !.severity = ReadCell(dtype, @)]]]

\* pd.concat([df, pd.DataFrame([new_entry])], ignore_index=True): the new
\* row's severity is the str the user typed, so the column becomes object.
concat(df, new_entry) ==
    [columns |-> df.columns,
     dtype |-> "object",
     rows |-> Append(df.rows,
                     [new_entry EXCEPT !.severity = [t |-> "str", v |-> @]])]

\* df.to_csv(health_log_file, index=False)
to_csv(df) ==
    [exists |-> TRUE,
     header |-> df.columns,
     rows |-> [i \in 1..Len(df.rows) |->
                 [df.rows[i] EXCEPT !.severity = @.v]]]

\* df.groupby('symptoms')['severity'].mean() needs a numeric column.
MeanFails(df) == df.dtype = "object"

----------------------------------------------------------------------------
(* Formatting *)

DigitStr(d) ==
    CASE d = 0 -> "0" [] d = 1 -> "1" [] d = 2 -> "2" [] d = 3 -> "3"
      [] d = 4 -> "4" [] d = 5 -> "5" [] d = 6 -> "6" [] d = 7 -> "7"
      [] d = 8 -> "8" [] d = 9 -> "9"

\* datetime.now().strftime('%Y-%m-%d %H:%M:%S'), for a clock that stays
\* within the first minute after the base instant 2024-01-01 00:00:00.
strftime(t) == "2024-01-01 00:00:" \o DigitStr(t \div 10) \o DigitStr(t % 10)

RECURSIVE join(_, _)
\* sep.join(list)
join(sep, list) ==
    IF list = <<>> THEN ""
    ELSE IF Len(list) = 1 THEN list[1]
    ELSE list[1] \o sep \o join(sep, Tail(list))

----------------------------------------------------------------------------
(* The two files *)

AbsentLog == [exists |-> FALSE, header |-> <<>>, rows |-> <<>>]

EmptyLog == [exists |-> TRUE, header |-> LogColumns, rows |-> <<>>]

\* The dict initialize_files dumps, in insertion order.
DefaultSymptomsDb == <<
    [name |-> "fever",
     remedies |-> <<"Rest well", "Stay hydrated", "Take paracetamol if temperature is high">>,
     severity |-> "medium",
     seek_medical_attention |-> "If temperature exceeds 102°F or persists for more than 3 days"],
    [name |-> "headache",
     remedies |-> <<"Rest in a quiet, dark room", "Stay hydrated", "Try mild pain relievers">>,
     severity |-> "low",
     seek_medical_attention |-> "If severe and persistent for more than 24 hours"],
    [name |-> "cold",
     remedies |-> <<"Rest", "Drink warm fluids", "Steam inhalation">>,
     severity |-> "low",
     seek_medical_attention |-> "If symptoms worsen after 7 days"],
    [name |-> "stomach_ache",
     remedies |-> <<"Avoid heavy foods", "Try ginger tea", "Stay hydrated">>,
     severity |-> "medium",
     seek_medical_attention |-> "If severe pain or accompanied by vomiting"] >>

AbsentDb == [exists |-> FALSE, table |-> <<>>]

\* A symptoms_db.json the user put in place before the first launch.
CustomSymptomsDb == <<
    [name |-> "cough",
     remedies |-> <<"Honey", "Warm water">>,
     severity |-> "low",
     seek_medical_attention |-> "If it lasts more than 2 weeks"] >>

\* Variant of initialize_log: the existence test is missing, the log is
\* created afresh at every launch.
initialize_log_always(file) == [exists |-> TRUE, header |-> LogColumns, rows |-> <<>>]

\* initialize_files: each file is written only when os.path.exists is False.
initialize_log(file) == IF ~file.exists THEN to_csv([columns |-> LogColumns, dtype |-> "object", rows |-> <<>>]) ELSE file

initialize_db(file) == IF ~file.exists THEN [exists |-> TRUE, table |-> DefaultSymptomsDb] ELSE file

\* Variant of load_symptoms_database: the built-in table is used whatever
\* the file holds.
load_defaults(file) == DefaultSymptomsDb

\* load_symptoms_database: json.load keeps the file's key order.
load_symptoms_database(file) == file.table

\* list(self.symptoms_db.keys())
keys(db) == [i \in 1..Len(db) |-> db[i].name]

\* self.symptoms_db[symptom]
lookup(db, name) == db[CHOOSE i \in 1..Len(db) : db[i].name = name]

----------------------------------------------------------------------------
(* What the user may type at each prompt *)

MenuInputs ==
    {<<"1">>, <<"2">>, <<"3">>, <<"4">>, <<"5">>,
     <<"6">>, <<"0">>, <<>>, <<" ", "5">>, <<"1", "0">>, <<"a">>}

SymptomInputs ==
    {<<"1">>, <<"2">>, <<"4">>, <<" ", "4">>, <<"0">>, <<"-", "3">>,
     <<"-", "4">>, <<"5">>, <<"9", "9">>, <<"a">>, <<>>, <<"1", ".", "0">>}

SeverityInputs ==
    {<<"3">>, <<"5">>, <<"0", "3">>, <<"a">>, <<>>, <<"2", ".", "5">>}

----------------------------------------------------------------------------
(* The process *)

Init ==
    /\ logFile \in {AbsentLog, EmptyLog}
    /\ dbFile \in {AbsentDb,
                   [exists |-> TRUE, table |-> DefaultSymptomsDb],
                   [exists |-> TRUE, table |-> CustomSymptomsDb]}
    /\ symptoms_db = <<>>
    /\ pc = "NotStarted"
    /\ symptom = ""
    /\ out = ""
    /\ exitCode = -1
    /\ run = 0
    /\ clock = 0

\* An uncaught exception: the traceback is printed and the process ends
\* with status 1.
Crash ==
    /\ pc' = "Terminated"
    /\ exitCode' = 1
    /\ out' = "Traceback"
    /\ symptom' = ""

\* Back in run(): the handler returned and input("Press Enter ...") blocks.
Return(msg) ==
    /\ pc' = "PressEnter"
    /\ out' = msg
    /\ symptom' = ""
    /\ exitCode' = exitCode

\* python health_bot.py: HealthBot() runs initialize_files and
\* load_symptoms_database, then run() shows the menu and waits.
Launch ==
    /\ pc \in {"NotStarted", "Terminated"}
    /\ run < MaxRuns
    /\ logFile' = initialize_log(logFile)
    /\ dbFile' = initialize_db(dbFile)
    /\ symptoms_db' = load_symptoms_database(dbFile')
    /\ pc' = "MainMenu"
    /\ symptom' = ""
    /\ out' = "Menu"
    /\ exitCode' = -1
    /\ run' = run + 1
    /\ UNCHANGED clock

\* Variant of dispatch: the branch for '5' is missing.
dispatch_without_exit(choice) ==
    IF choice = <<"1">> THEN "LoggingSymptom"
    ELSE IF choice = <<"2">> THEN "ViewingHistory"
    ELSE IF choice = <<"3">> THEN "ViewingInsights"
    ELSE IF choice = <<"4">> THEN "ViewingSeasonal"
    ELSE "PressEnter"

\* Variant of dispatch: the choice is stripped before it is compared.
dispatch_stripped(choice) ==
    IF Strip(choice) = <<"1">> THEN "LoggingSymptom"
    ELSE IF Strip(choice) = <<"2">> THEN "ViewingHistory"
    ELSE IF Strip(choice) = <<"3">> THEN "ViewingInsights"
    ELSE IF Strip(choice) = <<"4">> THEN "ViewingSeasonal"
    ELSE IF Strip(choice) = <<"5">> THEN "Terminated"
    ELSE "PressEnter"

\* run()'s if/elif chain: the choice is compared with '1'..'5' as text,
\* with no stripping and no conversion; the result is where control goes.
dispatch(choice) ==
    IF choice = <<"1">> THEN "LoggingSymptom"
    ELSE IF choice = <<"2">> THEN "ViewingHistory"
    ELSE IF choice = <<"3">> THEN "ViewingInsights"
    ELSE IF choice = <<"4">> THEN "ViewingSeasonal"
    ELSE IF choice = <<"5">> THEN "Terminated"
    ELSE "PressEnter"

\* run(): choice = self.display_menu().  Choices 1 to 4 enter their
\* handler, 5 prints the goodbye and calls sys.exit(0), anything else
\* prints the error and goes on to the Press Enter prompt.
display_menu(choice) ==
    /\ pc = "MainMenu"
    /\ dispatch(choice) = "LoggingSymptom" => Len(logFile.rows) < MaxLog
    /\ pc' = dispatch(choice)
    /\ out' = CASE pc' = "LoggingSymptom" -> "AvailableSymptoms"
                [] pc' = "Terminated" -> "Goodbye"
                [] pc' = "PressEnter" -> "InvalidChoice"
                [] OTHER -> out
    /\ exitCode' = IF pc' = "Terminated" THEN 0 ELSE exitCode
    /\ UNCHANGED <<logFile, dbFile, symptoms_db, symptom, run, clock>>

\* log_symptoms, first half: choice = int(input(...)) and
\* symptom = list(self.symptoms_db.keys())[choice-1]; ValueError and
\* IndexError print the error and return.
log_symptoms_choice(text) ==
    /\ pc = "LoggingSymptom"
    /\ IF PyIntOk(text) /\ PyIndexOk(keys(symptoms_db), PyIntValue(text) - 1)
         THEN /\ symptom' = PyIndex(keys(symptoms_db), PyIntValue(text) - 1)
              /\ pc' = "LoggingSeverity"
              /\ out' = "RateSeverity"
              /\ exitCode' = exitCode
         ELSE Return("InvalidChoice")
    /\ UNCHANGED <<logFile, dbFile, symptoms_db, run, clock>>

\* The row log_symptoms builds.
new_entry(name, severity, now) ==
    [date |-> strftime(now),
     symptoms |-> name,
     severity |-> severity,
     remedies_suggested |-> join("; ", lookup(symptoms_db, name).remedies)]

\* Variant of log_symptoms_severity: int(severity) is evaluated before the
\* log is written, so a failed coercion leaves the log as it was.
log_symptoms_severity_coerced_first(severity) ==
    /\ pc = "LoggingSeverity"
    /\ IF ~logFile.exists \/ ~PyIntOk(severity)
         THEN Crash /\ logFile' = logFile
         ELSE /\ logFile' = to_csv(concat(read_csv(logFile),
                                          new_entry(symptom, severity, clock)))
              /\ IF PyIntValue(severity) >= 4 THEN Return("MedicalAttention")
                 ELSE Return("Remedies")
    /\ UNCHANGED <<dbFile, symptoms_db, run, clock>>

\* log_symptoms, second half: severity = input(...); the log is read,
\* extended by the new row and written back; the remedies are printed; then
\* int(severity) >= 4 decides about the medical-attention warning.
log_symptoms_severity(severity) ==
    /\ pc = "LoggingSeverity"
    /\ IF ~logFile.exists
         THEN Crash /\ logFile' = logFile
         ELSE /\ logFile' = to_csv(concat(read_csv(logFile),
                                          new_entry(symptom, severity, clock)))
              /\ IF ~PyIntOk(severity) THEN Crash
                 ELSE IF PyIntValue(severity) >= 4 THEN Return("MedicalAttention")
                 ELSE Return("Remedies")
    /\ UNCHANGED <<dbFile, symptoms_db, run, clock>>

view_history ==
    /\ pc = "ViewingHistory"
    /\ IF ~logFile.exists THEN Return("NoHistoryFound")
       ELSE IF read_csv(logFile).rows = <<>> THEN Return("NoEntriesYet")
       ELSE Return("History")
    /\ UNCHANGED <<logFile, dbFile, symptoms_db, run, clock>>

get_insights ==
    /\ pc = "ViewingInsights"
    /\ IF ~logFile.exists THEN Return("NoDataAvailable")
       ELSE IF read_csv(logFile).rows = <<>> THEN Return("NoEntriesToAnalyze")
       ELSE IF MeanFails(read_csv(logFile)) THEN Crash
       ELSE Return("Insights")
    /\ UNCHANGED <<logFile, dbFile, symptoms_db, run, clock>>

seasonal_illnesses ==
    /\ pc = "ViewingSeasonal"
    /\ Return("SeasonalIllnesses")
    /\ UNCHANGED <<logFile, dbFile, symptoms_db, run, clock>>

\* run(): input("\nPress Enter to continue...") returns, the loop shows the
\* menu again.
press_enter ==
    /\ pc = "PressEnter"
    /\ pc' = "MainMenu"
    /\ out' = "Menu"
    /\ UNCHANGED <<logFile, dbFile, symptoms_db, symptom, exitCode, run, clock>>

\* Time passes.
Tick ==
    /\ clock < MaxClock
    /\ clock' = clock + 1
    /\ UNCHANGED <<logFile, dbFile, symptoms_db, pc, symptom, out, exitCode, run>>

Step ==
    \/ \E choice \in MenuInputs : display_menu(choice)
    \/ \E text \in SymptomInputs : log_symptoms_choice(text)
    \/ \E severity \in SeverityInputs : log_symptoms_severity(severity)
    \/ view_history
    \/ get_insights
    \/ seasonal_illnesses
    \/ press_enter

Next == Launch \/ Step \/ Tick

Spec == Init /\ [][Next]_vars

\* The user keeps answering every prompt and every handler runs on.
FairSpec == Spec /\ WF_vars(Step)

----------------------------------------------------------------------------
(* The state machine of the specification, read off the process *)

State ==
    CASE pc \in {"MainMenu", "PressEnter"} -> "MainMenu"
      [] pc \in {"LoggingSymptom", "LoggingSeverity"} -> "LoggingSymptom"
      [] OTHER -> pc

ActionStates ==
    {"LoggingSymptom", "ViewingHistory", "ViewingInsights", "ViewingSeasonal"}

Rows == logFile.rows

LastRow(file) == file.rows[Len(file.rows)]

IsPrefix(s, t) == Len(s) <= Len(t) /\ \A i \in 1..Len(s) : s[i] = t[i]

\* A symptom number as the menu means it: an integer from 1 to N.
InRange(text) == PyIntOk(text) /\ PyIntValue(text) \in 1..Len(symptoms_db)

\* The remedies column expected for each symptom, written out.
ExpectedRemedies(name) ==
    CASE name = "fever" ->
           "Rest well; Stay hydrated; Take paracetamol if temperature is high"
      [] name = "headache" ->
           "Rest in a quiet, dark room; Stay hydrated; Try mild pain relievers"
      [] name = "cold" -> "Rest; Drink warm fluids; Steam inhalation"
      [] name = "stomach_ache" -> "Avoid heavy foods; Try ginger tea; Stay hydrated"
      [] name = "cough" -> "Honey; Warm water"

\* The date column expected for each instant of the clock, written out.
ExpectedDate(t) ==
    <<"2024-01-01 00:00:00", "2024-01-01 00:00:01", "2024-01-01 00:00:02",
      "2024-01-01 00:00:03", "2024-01-01 00:00:04">>[t + 1]

----------------------------------------------------------------------------
(* C1: in log_symptoms every symptom-number input that is non-numeric or  *)
(* an integer outside 1..N (0 and negatives included) aborts to the main   *)
(* menu with the error message and leaves the log as it was.               *)
C1_InvalidSymptomAborts ==
    [][\A text \in SymptomInputs :
         (log_symptoms_choice(text) /\ ~InRange(text))
            => /\ pc' = "PressEnter"
               /\ out' = "InvalidChoice"
               /\ logFile' = logFile]_vars

(* C2: the process ends only by the user choosing menu option 5; no input  *)
(* error ends it.                                                          *)
C2_TerminatedOnlyByExit ==
    [][(pc # "Terminated" /\ pc' = "Terminated") => display_menu(<<"5">>)]_vars

(* C3: the persisted log is append-only: at every step the rows before the *)
(* step are a prefix of the rows after it.                                 *)
C3_LogAppendOnly ==
    [][IsPrefix(logFile.rows, logFile'.rows)]_vars

(* C4: for every valid selection i in 1..N the symptom chosen is the one   *)
(* displayed at position i, and after the append loading the whole log     *)
(* gives one row more, whose last row has that symptom, its remedies       *)
(* joined with "; " and the timestamp of the logging instant.              *)
C4_AppendThenLoad ==
    [][/\ \A text \in SymptomInputs :
            (log_symptoms_choice(text) /\ InRange(text))
               => symptom' = symptoms_db[PyIntValue(text)].name
       /\ \A severity \in SeverityInputs :
            log_symptoms_severity(severity)
               => LET before == read_csv(logFile).rows
                      after == read_csv(logFile').rows
                  IN  /\ Len(after) = Len(before) + 1
                      /\ after[Len(after)].symptoms = symptom
                      /\ after[Len(after)].remedies_suggested = ExpectedRemedies(symptom)
                      /\ after[Len(after)].date = ExpectedDate(clock)]_vars

\* An entry for headache, which only the valid selection 2 can produce, has
\* been appended after an earlier one.
C4_Witness ==
    /\ pc = "PressEnter"
    /\ out = "Remedies"
    /\ Len(Rows) >= 2
    /\ LastRow(logFile).symptoms = "headache"

(* C5: whenever the menu reads '5' the process ends with exit code 0, and  *)
(* an ended process issues no further prompt; '5' can be chosen at the     *)
(* menu whatever the log and the reference table hold.                     *)
C5_ExitTerminates ==
    /\ [](pc = "MainMenu" => ENABLED display_menu(<<"5">>))
    /\ [][/\ display_menu(<<"5">>) => (pc' = "Terminated" /\ exitCode' = 0)
          /\ (pc = "Terminated" /\ run' = run) => pc' = "Terminated"]_vars

\* The process has exited through option 5 with entries in the log.
C5_Witness ==
    /\ pc = "Terminated"
    /\ exitCode = 0
    /\ out = "Goodbye"
    /\ Rows # <<>>

(* C6: a menu input other than '1'..'5' leaves the program in MainMenu:    *)
(* the error is displayed, no action state and no exit is entered, the log *)
(* and the reference table are unchanged, and after the pause the menu is  *)
(* prompted again.                                                         *)
C6_InvalidMenuStays ==
    [][/\ \A choice \in MenuInputs \ {<<"1">>, <<"2">>, <<"3">>, <<"4">>, <<"5">>} :
            display_menu(choice)
               => /\ State' = "MainMenu"
                  /\ pc' = "PressEnter"
                  /\ out' = "InvalidChoice"
                  /\ exitCode' = -1
                  /\ <<logFile, dbFile, symptoms_db>>' = <<logFile, dbFile, symptoms_db>>
       /\ (pc = "PressEnter" /\ out = "InvalidChoice" /\ pc' # pc)
               => (pc' = "MainMenu" /\ out' = "Menu")]_vars

\* The error of an invalid menu choice is on screen, with entries logged.
C6_Witness ==
    /\ pc = "PressEnter"
    /\ out = "InvalidChoice"
    /\ Rows # <<>>

(* C7: every entry into LoggingSymptom, ViewingHistory, ViewingInsights or *)
(* ViewingSeasonal is eventually followed by a return to MainMenu in the   *)
(* same process, whatever the user types in that state.                    *)
C7_ReturnsToMainMenu ==
    \A r \in 1..MaxRuns :
        (run = r /\ State \in ActionStates) ~> (run = r /\ State = "MainMenu")

(* C8: initialize_files is idempotent: on a clean environment it creates   *)
(* the reference store with exactly the keys fever, headache, cold,        *)
(* stomach_ache and an empty log with the fixed header; where a file       *)
(* already exists, also after entries were logged, it is left unchanged;   *)
(* running it again on its own result changes nothing.                     *)
C8_InitializeIdempotent ==
    [][Launch =>
         /\ logFile.exists => logFile' = logFile
         /\ dbFile.exists => dbFile' = dbFile
         /\ ~logFile.exists =>
               logFile' = [exists |-> TRUE,
                           header |-> <<"date", "symptoms", "severity", "remedies_suggested">>,
                           rows |-> <<>>]
         /\ ~dbFile.exists =>
               /\ dbFile'.exists
               /\ keys(dbFile'.table) = <<"fever", "headache", "cold", "stomach_ache">>
         /\ initialize_log(logFile') = logFile'
         /\ initialize_db(dbFile') = dbFile']_vars

\* The program has been launched a second time over a log with entries.
C8_Witness ==
    /\ run >= 2
    /\ pc = "MainMenu"
    /\ Rows # <<>>

(* C9: in every reachable state the symptom of every log entry is a key of *)
(* the reference table, which is the table on disk, unchanged since load.  *)
C9_SymptomsAreKeys ==
    pc # "NotStarted" =>
        /\ symptoms_db = dbFile.table
        /\ \A i \in 1..Len(Rows) :
              \E k \in 1..Len(symptoms_db) : Rows[i].symptoms = symptoms_db[k].name

\* Two entries are in the log of the default table.
C9_Witness ==
    /\ Len(Rows) >= 2
    /\ Rows[1].symptoms = "stomach_ache"
    /\ Rows[2].symptoms = "fever"

(* C10: in log_symptoms the log is written before the severity text is     *)
(* coerced: after a valid selection the row is persisted with the severity *)
(* exactly as typed, numeric or not, and where the coercion fails the      *)
(* process ends with the log grown by that row.                            *)
C10_WriteBeforeCoercion ==
    [][\A severity \in SeverityInputs :
         log_symptoms_severity(severity)
            => /\ Len(logFile'.rows) = Len(logFile.rows) + 1
               /\ LastRow(logFile').severity = severity
               /\ ~PyIntOk(severity) => (pc' = "Terminated" /\ exitCode' = 1)]_vars

\* The first process crashed on the severity "a" and the row is in the log.
C10_Witness ==
    /\ run = 1
    /\ pc = "Terminated"
    /\ exitCode = 1
    /\ Len(Rows) = 1
    /\ Rows[1].severity = <<"a">>

============================================================================
